---- MODULE Spec2Model ----
(***************************************************************************)
(* TelegramCommandBot (telegram_command_bot.py): the alert registry        *)
(* (alerts, alert_sent, the lock), the command handler run by the single   *)
(* consuming thread, the monitoring loops started by add_alert, and the    *)
(* price fetch get_current_price.                                          *)
(*                                                                         *)
(* Numbers are amounts in hundredths of a rupee, the precision that        *)
(* get_current_price rounds to; raw closing prices of the chart feed are   *)
(* in thousandths.  NaN and None are the two sentinels below.              *)
(***************************************************************************)
EXTENDS Integers, Sequences, FiniteSets, TLC

\* ------------------------------------------------------------------------
\* Values and inputs
\* ------------------------------------------------------------------------

\* float("nan"): a float for which every comparison is false.
NaN == -1
\* Python None, as returned by get_current_price when the feed is unavailable.
None == -2

\* The most monitoring threads the model lets add_alert start.
MaxLoops == 2

Chats == {"c1", "c2"}
Symbols == {"INFY", "TCS"}
\* str.upper() / str.lower() on the tokens of the model.
Upper(s) ==
    CASE s = "tcs" -> "TCS"
      [] s = "infy" -> "INFY"
      [] OTHER -> s

Lower(s) ==
    CASE s = "/ADD" -> "/add"
      [] s = "/Help" -> "/help"
      [] OTHER -> s

\* float(s): ok = FALSE stands for ValueError.
ParseFloat(s) ==
    CASE s = "1" -> [ok |-> TRUE, val |-> 100]
      [] s = "2" -> [ok |-> TRUE, val |-> 200]
      [] s = "3" -> [ok |-> TRUE, val |-> 300]
      [] s = "nan" -> [ok |-> TRUE, val |-> NaN]
      [] OTHER -> [ok |-> FALSE, val |-> NaN]

\* a >= b and a <= b on floats.
GE(a, b) == a # NaN /\ b # NaN /\ a >= b
LE(a, b) == a # NaN /\ b # NaN /\ a <= b

\* f"{sym}.NS"
Ticker(sym) == sym \o ".NS"

\* The commands users send, as (chat_id, message_text.strip().split()).
\* Chat c1 sends every verb, wrong arities, prices float() rejects, lower >=
\* upper, and valid commands on both symbols; chat c2 sends valid commands on
\* the symbols c1 uses, so that each meets entries of the other.
Commands ==
    {<<"c1", t>> : t \in
        {<<>>, <<"/foo">>, <<"/Help">>, <<"/start">>, <<"/list">>,
         <<"/add">>, <<"/add", "INFY", "3", "1">>, <<"/add", "tcs", "3", "3">>,
         <<"/add", "INFY", "abc", "3">>, <<"/add", "INFY", "1", "x">>,
         <<"/update", "INFY">>, <<"/update", "INFY", "3", "3">>,
         <<"/update", "INFY", "1", "x">>, <<"/remove">>,
         <<"/add", "INFY", "1", "3">>, <<"/add", "INFY", "2", "3">>,
         <<"/add", "tcs", "1", "3">>,
         <<"/update", "INFY", "1", "3">>, <<"/update", "INFY", "2", "3">>,
         <<"/update", "tcs", "1", "3">>,
         <<"/remove", "INFY">>, <<"/remove", "tcs">>}}
    \cup
    {<<"c2", t>> : t \in
        {<<"/list">>, <<"/add", "INFY", "1", "3">>, <<"/add", "INFY", "3", "2">>,
         <<"/update", "INFY", "2", "3">>, <<"/update", "tcs", "2", "3">>,
         <<"/remove", "INFY">>, <<"/remove", "tcs">>}}

\* The commands of the specification that lets add_alert race with the start
\* of the monitoring thread: one chat, one symbol, and a price float() reads
\* as nan.
RaceCommands ==
    {<<"c1", t>> : t \in
        {<<"/ADD", "INFY", "1", "3">>, <<"/add", "INFY", "nan", "3">>,
         <<"/update", "INFY", "2", "3">>, <<"/remove", "INFY">>}}

\* The commands of the specification of one owner whose /update changes both
\* thresholds of its entry while the monitoring thread evaluates it.
OwnerCommands ==
    {<<"c1", t>> : t \in
        {<<"/add", "INFY", "1", "2">>, <<"/update", "INFY", "2", "3">>,
         <<"/remove", "INFY">>, <<"/add", "tcs", "1", "2">>}}

\* ------------------------------------------------------------------------
\* get_current_price: the pure parts
\* ------------------------------------------------------------------------

\* intervals = ["1m", "5m", "15m"]
Intervals == <<"1m", "5m", "15m">>

\* for attempt in range(3)
Attempts == 3

\* Closing prices of the feed, in thousandths; None is a JSON null.
CloseValues == {1996, 3004}

\* round(float(price), 2): thousandths to hundredths (no model value ends in 5).
Round2(milli) == (milli + 5) \div 10

\* The close series the feed sends: empty, all null, and with values.
CloseSeries ==
    {<<>>, <<None>>, <<None, None>>}
    \cup {<<a>> : a \in CloseValues}
    \cup {<<a, b>> : a \in CloseValues \cup {None}, b \in CloseValues \cup {None}}

\* One answer to requests.get: it raises (transport error, timeout), or it
\* carries a status, a content type and a body with what the code looks up.
Response(raises, status, ctype, has_result, has_quote, close) ==
    [raises |-> raises, status |-> status, ctype |-> ctype,
     has_result |-> has_result, has_quote |-> has_quote, close |-> close]

Responses ==
    {Response(TRUE, 0, "", FALSE, FALSE, <<>>),
     Response(FALSE, 429, "application/json", TRUE, TRUE, <<1996>>),
     Response(FALSE, 200, "text/html", TRUE, TRUE, <<1996>>),
     Response(FALSE, 200, "application/json", FALSE, TRUE, <<1996>>),
     Response(FALSE, 200, "application/json", TRUE, FALSE, <<1996>>)}
    \cup {Response(FALSE, 200, "Application/JSON; charset=utf-8", TRUE, TRUE, c) :
             c \in CloseSeries}

\* `"application/json" not in ...get("Content-Type", "").lower()`
IsJson(ctype) == ctype \in {"application/json", "Application/JSON; charset=utf-8"}

\* Fault: the scan goes over closes, not reversed(closes).
RECURSIVE FirstNonNull(_)
FirstNonNull(closes) ==
    IF closes = <<>> THEN None
    ELSE IF Head(closes) # None THEN Head(closes)
    ELSE FirstNonNull(Tail(closes))

\* `for price in reversed(closes): if price is not None: return ...`:
\* the last element that is not None, None when there is none.
RECURSIVE LastNonNull(_)
LastNonNull(closes) ==
    IF closes = <<>> THEN None
    ELSE IF closes[Len(closes)] # None THEN closes[Len(closes)]
    ELSE LastNonNull(SubSeq(closes, 1, Len(closes) - 1))

\* The body of the try block for one response: the price it returns, or the
\* reason the attempt fails (what the code prints; "" when it prints nothing).
Attempt(r) ==
    IF r.raises THEN [ok |-> FALSE, price |-> None, why |-> "error"]
    ELSE IF r.status # 200 THEN [ok |-> FALSE, price |-> None, why |-> "http_status"]
    ELSE IF ~IsJson(r.ctype) THEN [ok |-> FALSE, price |-> None, why |-> "non_json"]
    ELSE IF ~r.has_result THEN [ok |-> FALSE, price |-> None, why |-> "no_chart_result"]
    ELSE IF ~r.has_quote THEN [ok |-> FALSE, price |-> None, why |-> "no_quote_data"]
    ELSE IF r.close = <<>> THEN [ok |-> FALSE, price |-> None, why |-> "no_close_series"]
    ELSE IF LastNonNull(r.close) = None THEN [ok |-> FALSE, price |-> None, why |-> ""]
    ELSE [ok |-> TRUE, price |-> Round2(LastNonNull(r.close)), why |-> ""]

\* What get_current_price can return to a caller.
QuoteOutcomes ==
    {None} \cup {Attempt(r).price : r \in {x \in Responses : Attempt(x).ok}}

\* ------------------------------------------------------------------------
\* State
\* ------------------------------------------------------------------------

VARIABLES
    alerts,             \* self.alerts: symbol -> entry (a dict: a function on its keys)
    alerts_keys,        \* the insertion order of self.alerts
    alert_sent,         \* self.alert_sent: symbol -> notified flags
    monitoring_active,  \* self.monitoring_active
    lock,               \* self.lock: "free" or the thread holding it
    cpc,                \* the consuming thread: where handle_command stands
    clocal,             \* handle_command's locals chat_id, stock, lower, upper
    sends,              \* send_message calls made by the current handle_command
    cmd,                \* history: the (chat_id, parts) of the last handle_command
    reply,              \* the last message handle_command sent
    effect,             \* history: what the last handle_command did to the registry
    loops,              \* the monitoring threads: position and locals of each
    breaches,           \* breach notifications sent per symbol since its last add/update
    gp,                 \* one call of get_current_price: its position and locals
    run                 \* run(): its position, the updates left of the batch, last_update_id

regVars == <<alerts, alerts_keys, alert_sent>>
cmdVars == <<cpc, clocal, sends, cmd, reply, effect>>
vars == <<alerts, alerts_keys, alert_sent, monitoring_active, lock,
          cpc, clocal, sends, cmd, reply, effect, loops, breaches, gp, run>>

LoopIds == 1..MaxLoops

\* ------------------------------------------------------------------------
\* dict operations
\* ------------------------------------------------------------------------

\* d[k] = v
Put(d, k, v) == [x \in (DOMAIN d) \cup {k} |-> IF x = k THEN v ELSE d[x]]

\* del d[k]
Del(d, k) == [x \in (DOMAIN d) \ {k} |-> d[x]]

\* The key order of a dict after d[k] = v: a new key goes last, an old one stays.
KeysAfterPut(keys, k) ==
    IF \E i \in 1..Len(keys) : keys[i] = k THEN keys ELSE Append(keys, k)

\* The key order of a dict after del d[k].
KeysAfterDel(keys, k) == SelectSeq(keys, LAMBDA x : x # k)

EmptyDict == [x \in {} |-> 0]

\* ------------------------------------------------------------------------
\* Entries
\* ------------------------------------------------------------------------

\* Fault: add_alert respects the owner of an entry that exists.
NewEntryKeepsOwner(chat, sym, lower, upper) ==
    [ticker |-> Ticker(sym), upper_price |-> upper, lower_price |-> lower,
     chat_id |-> IF sym \in DOMAIN alerts THEN alerts[sym].chat_id ELSE chat,
     active |-> TRUE]

\* The dict add_alert stores.
NewEntry(chat, sym, lower, upper) ==
    [ticker |-> Ticker(sym), upper_price |-> upper, lower_price |-> lower,
     chat_id |-> chat, active |-> TRUE]

\* Fault: /update without `self.alerts[stock]["active"] = True`.
UpdatedEntryKeepsActive(e, lower, upper) ==
    [e EXCEPT !.lower_price = lower, !.upper_price = upper]

\* The three item assignments of /update on the stored dict.
UpdatedEntry(e, lower, upper) ==
    [e EXCEPT !.lower_price = lower, !.upper_price = upper, !.active = TRUE]

\* {"upper_sent": False, "lower_sent": False}
FreshSent == [upper_sent |-> FALSE, lower_sent |-> FALSE]

\* Fault: the ownership test without the chat_id comparison.
OwnsWhoeverAsks(chat, sym) == sym \in DOMAIN alerts

\* `sym in self.alerts and self.alerts[sym].get("chat_id") == chat_id`
Owns(chat, sym) == sym \in DOMAIN alerts /\ alerts[sym].chat_id = chat

\* self.alert_sent.get(sym, {}).get(flag, False)
SentFlag(sym, flag) ==
    IF sym \in DOMAIN alert_sent THEN alert_sent[sym][flag] ELSE FALSE

\* ------------------------------------------------------------------------
\* The snapshot of check_alerts
\*
\* list(self.alerts.items()) copies the (key, dict) pairs but not the dicts:
\* a pair stays an alias of the registry's dict (live) until add_alert
\* stores a new dict under the key or remove_alert deletes the key; from
\* then on it refers to the old dict, which nothing changes any more (data;
\* of an old dict that is inactive only that much is kept, the loop skips it).
\* ------------------------------------------------------------------------

NoData == [ticker |-> "", upper_price |-> 0, lower_price |-> 0,
           chat_id |-> "", active |-> FALSE]

SnapshotOf(keys) ==
    [i \in 1..Len(keys) |-> [sym |-> keys[i], live |-> TRUE, data |-> NoData]]

\* The dict a snapshot pair refers to.
Deref(e) == IF e.live THEN alerts[e.sym] ELSE e.data

\* The pairs of every thread's snapshot after self.alerts[sym] is rebound or
\* deleted: those that aliased it keep the old dict.
Detach(ls, sym) ==
    [i \in DOMAIN ls |->
        [ls[i] EXCEPT !.snap =
            [j \in 1..Len(ls[i].snap) |->
                IF ls[i].snap[j].sym = sym /\ ls[i].snap[j].live /\ sym \in DOMAIN alerts
                THEN [sym |-> sym, live |-> FALSE,
                      data |-> IF alerts[sym].active THEN alerts[sym] ELSE NoData]
                ELSE ls[i].snap[j]]]]

\* A monitoring thread that has not been created.  Its locals are those of
\* check_alerts; last is history: what its latest step did, where a claim
\* needs to tell.
NoLoop == [pc |-> "none", snap |-> <<>>, sym |-> "", price |-> None,
           upper |-> 0, lower |-> 0, chat |-> "", last |-> ""]

\* ------------------------------------------------------------------------
\* Messages
\* ------------------------------------------------------------------------

\* What a message of handle_command says: the branch that sends it (verb),
\* which of the branch's texts it is (kind), the symbol it names, and for
\* /list the symbols it lists.  Every send_message of the handler is to its
\* chat_id parameter.
Msg(verb, kind, stock, names) ==
    [verb |-> verb, kind |-> kind, stock |-> stock, names |-> names]

NoReply == Msg("", "none", "", {})
\* handle_command has not been called yet.
NoCmd == <<"", <<>>>>
NoLocal == [chat |-> "", stock |-> "", lower |-> 0, upper |-> 0]
NoBreaches == [s \in Symbols |-> 0]

\* No call of get_current_price is under way.  asked is history: the interval
\* of each request made; closes is the close series of the response that
\* gave the price.
GpIdle == [pc |-> "idle", ticker |-> "", interval |-> 1, attempt |-> 0,
           requests |-> 0, failed |-> 0, slept |-> 0, why |-> "", result |-> None,
           asked |-> <<>>, closes |-> <<>>]

\* run() is about to call get_updates for the first time.  raised is
\* history: the last exception `except Exception` caught; exit is history:
\* what ended the loop.
RunInit == [pc |-> "get", updates |-> <<>>, last_update_id |-> 0,
            raised |-> "", exit |-> ""]

Init ==
    /\ alerts = EmptyDict
    /\ alerts_keys = <<>>
    /\ alert_sent = EmptyDict
    /\ monitoring_active = FALSE
    /\ lock = "free"
    /\ cpc = "idle"
    /\ clocal = NoLocal
    /\ sends = 0
    /\ cmd = NoCmd
    /\ reply = NoReply
    /\ effect = "none"
    /\ loops = [i \in LoopIds |-> NoLoop]
    /\ breaches = NoBreaches
    /\ gp = GpIdle
    /\ run = RunInit

\* ------------------------------------------------------------------------
\* handle_command
\*
\* The consuming thread runs one handle_command at a time.  A step of the
\* model runs the handler from one access to shared state (the registry
\* under the lock, the monitoring flag) up to the next; calls that touch no
\* shared state (parsing, get_current_price, send_message) belong to the
\* step of the code around them.
\* ------------------------------------------------------------------------

\* cmd = parts[0].lower() if parts else ""
Verb(parts) == IF Len(parts) > 0 THEN Lower(parts[1]) ELSE ""

\* Fault: the argument checks without `if lower >= upper`.
ArgCheckNoRange(parts) ==
    IF Len(parts) # 4 THEN "usage"
    ELSE IF ~ParseFloat(parts[3]).ok \/ ~ParseFloat(parts[4]).ok THEN "value_error"
    ELSE "ok"

\* The argument checks shared by /add and /update, in the code's order:
\* arity, float() of both prices, lower >= upper.
ArgCheck(parts) ==
    IF Len(parts) # 4 THEN "usage"
    ELSE IF ~ParseFloat(parts[3]).ok \/ ~ParseFloat(parts[4]).ok THEN "value_error"
    ELSE IF GE(ParseFloat(parts[3]).val, ParseFloat(parts[4]).val) THEN "range"
    ELSE "ok"

\* The handler returns having sent msgs, in this order.
Finish(msgs) ==
    /\ UNCHANGED <<cmd, effect>>
    /\ sends' = sends + Len(msgs)
    /\ reply' = IF msgs = <<>> THEN reply ELSE msgs[Len(msgs)]
    /\ cpc' = "idle"
    /\ clocal' = NoLocal

\* The handler is entered and returns within the step, having sent msgs.
Handled(msgs, eff) ==
    /\ effect' = eff
    /\ sends' = Len(msgs)
    /\ reply' = IF msgs = <<>> THEN NoReply ELSE msgs[Len(msgs)]
    /\ cpc' = "idle"
    /\ clocal' = NoLocal

\* The handler is entered and stops at pc with its locals set.
Entered(pc, chat, stock, lower, upper, eff) ==
    /\ effect' = eff
    /\ sends' = 0
    /\ reply' = NoReply
    /\ cpc' = pc
    /\ clocal' = [chat |-> chat, stock |-> stock, lower |-> lower, upper |-> upper]

HelpReplies(chat) == <<Msg("/help", "help", "", {})>>

CmdHelp(chat, parts) ==
    /\ Verb(parts) \in {"/start", "/help"}
    /\ Handled(HelpReplies(chat), "none")
    /\ UNCHANGED <<regVars, monitoring_active, lock, loops, breaches, gp>>

\* The replies of /add and /update to arguments that fail the checks.
RejectReplies(chat, verb, check) ==
    CASE check = "usage" -> <<Msg(verb, "usage", "", {})>>
      [] check = "value_error" -> <<Msg(verb, "prices_must_be_numbers", "", {})>>
      [] check = "range" -> <<Msg(verb, "lower_must_be_less", "", {})>>

CmdAddRejected(chat, parts) ==
    /\ Verb(parts) = "/add"
    /\ ArgCheck(parts) # "ok"
    /\ Handled(RejectReplies(chat, "/add", ArgCheck(parts)), "none")
    /\ UNCHANGED <<regVars, monitoring_active, lock, loops, breaches, gp>>

\* add_alert, the block under the lock.
AddAlert(chat, stock, lower, upper) ==
    /\ lock = "free"
    /\ alerts' = Put(alerts, stock, NewEntry(chat, stock, lower, upper))
    /\ alerts_keys' = KeysAfterPut(alerts_keys, stock)
    /\ alert_sent' = Put(alert_sent, stock, FreshSent)
    /\ loops' = Detach(loops, stock)
    /\ breaches' = [breaches EXCEPT ![stock] = 0]

CmdAdd(chat, parts) ==
    /\ Verb(parts) = "/add"
    /\ ArgCheck(parts) = "ok"
    /\ LET stock == Upper(parts[2])
           lower == ParseFloat(parts[3]).val
           upper == ParseFloat(parts[4]).val
       IN /\ AddAlert(chat, stock, lower, upper)
          /\ Entered("add_monitor", chat, stock, lower, upper,
                     IF stock \notin DOMAIN alerts THEN "created"
                     ELSE IF alerts[stock].chat_id = chat THEN "replaced_own"
                     ELSE "replaced_other")
    /\ UNCHANGED <<monitoring_active, lock, gp>>

\* The monitoring thread start_monitoring_thread creates, if it creates one.
StartMonitoringThread(ls) ==
    IF monitoring_active THEN ls
    ELSE LET i == CHOOSE j \in LoopIds :
                    ls[j].pc = "none" /\ \A k \in LoopIds : ls[k].pc = "none" => j <= k
         IN [ls EXCEPT ![i].pc = "spawned"]

AddReplies(chat, stock, test_price) ==
    <<Msg("/add", IF test_price = None THEN "added_feed_unavailable" ELSE "added",
          stock, {})>>

\* The rest of /add: the flag test of add_alert and start_monitoring_thread,
\* then the optional price and the reply.
CmdAddMonitorAndReply(prompt) ==
    /\ cpc = "add_monitor"
    /\ monitoring_active \/ \E j \in LoopIds : loops[j].pc = "none"
    /\ prompt => \A j \in LoopIds : loops[j].pc # "spawned"
    /\ loops' = StartMonitoringThread(loops)
    /\ \E test_price \in QuoteOutcomes :
          Finish(AddReplies(clocal.chat, clocal.stock, test_price))
    /\ UNCHANGED <<regVars, monitoring_active, lock, breaches, gp, run>>

CmdUpdateRejected(chat, parts) ==
    /\ Verb(parts) = "/update"
    /\ ArgCheck(parts) # "ok"
    /\ Handled(RejectReplies(chat, "/update", ArgCheck(parts)), "none")
    /\ UNCHANGED <<regVars, monitoring_active, lock, loops, breaches, gp>>

UpdateNotFoundReplies(chat, stock) == <<Msg("/update", "not_found", stock, {})>>

UpdateReplies(chat, stock, cur) ==
    <<Msg("/update", IF cur = None THEN "updated_price_na" ELSE "updated", stock, {})>>

\* /update, not found: the handler stands at send_message inside `with self.lock`.
CmdUpdateNotFound(chat, parts) ==
    /\ Verb(parts) = "/update"
    /\ ArgCheck(parts) = "ok"
    /\ lock = "free"
    /\ ~Owns(chat, Upper(parts[2]))
    /\ lock' = "cmd"
    /\ Entered("update_not_found", chat, Upper(parts[2]),
               ParseFloat(parts[3]).val, ParseFloat(parts[4]).val, "none")
    /\ UNCHANGED <<regVars, monitoring_active, loops, breaches, gp>>

\* The not-found reply is sent, then the return leaves the with block.
CmdUpdateNotFoundReply ==
    /\ cpc = "update_not_found"
    /\ Finish(UpdateNotFoundReplies(clocal.chat, clocal.stock))
    /\ lock' = "free"
    /\ UNCHANGED <<regVars, monitoring_active, loops, breaches, gp, run>>

\* /update, found: the four assignments under the lock, then price and reply.
CmdUpdate(chat, parts) ==
    /\ Verb(parts) = "/update"
    /\ ArgCheck(parts) = "ok"
    /\ lock = "free"
    /\ LET stock == Upper(parts[2])
           lower == ParseFloat(parts[3]).val
           upper == ParseFloat(parts[4]).val
       IN /\ Owns(chat, stock)
          /\ alerts' = [alerts EXCEPT ![stock] = UpdatedEntry(@, lower, upper)]
          /\ alert_sent' = Put(alert_sent, stock, FreshSent)
          /\ breaches' = [breaches EXCEPT ![stock] = 0]
          /\ \E cur \in QuoteOutcomes :
                Handled(UpdateReplies(chat, stock, cur),
                        IF alerts[stock].active THEN "updated" ELSE "rearmed")
    /\ UNCHANGED <<alerts_keys, monitoring_active, lock, loops, gp>>

\* Fault: /list without the chat_id filter.
UserAlertsOfAll(chat) == DOMAIN alerts

\* user_alerts = {k: v for k, v in self.alerts.items() if v.get("chat_id") == chat_id}
UserAlerts(chat) == {k \in DOMAIN alerts : alerts[k].chat_id = chat}

ListReplies(chat) ==
    IF UserAlerts(chat) = {}
    THEN <<Msg("/list", "no_alerts", "", {})>>
    ELSE <<Msg("/list", "list", "", UserAlerts(chat))>>

CmdList(chat, parts) ==
    /\ Verb(parts) = "/list"
    /\ lock = "free"
    /\ Handled(ListReplies(chat), "none")
    /\ UNCHANGED <<regVars, monitoring_active, lock, loops, breaches, gp>>

\* Fault: /remove without its `return`, falling through to the last line.
RemoveRepliesFallThrough(chat, stock, removed) ==
    <<Msg("/remove", IF removed THEN "removed" ELSE "not_found", stock, {}),
      Msg("", "unknown_command", "", {})>>

RemoveReplies(chat, stock, removed) ==
    <<Msg("/remove", IF removed THEN "removed" ELSE "not_found", stock, {})>>

\* remove_alert: its effect on the registry and on the snapshots aliasing it.
RemoveAlert(chat, stock) ==
    /\ lock = "free"
    /\ IF Owns(chat, stock)
       THEN /\ alerts' = Del(alerts, stock)
            /\ alerts_keys' = KeysAfterDel(alerts_keys, stock)
            /\ alert_sent' = IF stock \in DOMAIN alert_sent
                             THEN Del(alert_sent, stock) ELSE alert_sent
            /\ loops' = Detach(loops, stock)
       ELSE UNCHANGED <<regVars, loops>>

CmdRemove(chat, parts) ==
    /\ Verb(parts) = "/remove"
    /\ IF Len(parts) # 2
       THEN /\ Handled(<<Msg("/remove", "usage", "", {})>>, "none")
            /\ UNCHANGED <<regVars, loops>>
       ELSE /\ RemoveAlert(chat, Upper(parts[2]))
            /\ Handled(RemoveReplies(chat, Upper(parts[2]), Owns(chat, Upper(parts[2]))),
                       IF Owns(chat, Upper(parts[2])) THEN "removed" ELSE "none")
    /\ UNCHANGED <<monitoring_active, lock, breaches, gp>>

UnknownReplies(chat) == <<Msg("", "unknown_command", "", {})>>

CmdUnknown(chat, parts) ==
    /\ Verb(parts) \notin {"/start", "/help", "/add", "/update", "/list", "/remove"}
    /\ Handled(UnknownReplies(chat), "none")
    /\ UNCHANGED <<regVars, monitoring_active, lock, loops, breaches, gp>>

\* handle_command(chat_id, message_text), entered by the consuming thread.
HandleCommand(chat, parts) ==
    /\ cpc = "idle"
    /\ cmd' = <<chat, parts>>
    /\ \/ CmdHelp(chat, parts)
       \/ CmdAddRejected(chat, parts)
       \/ CmdAdd(chat, parts)
       \/ CmdUpdateRejected(chat, parts)
       \/ CmdUpdateNotFound(chat, parts)
       \/ CmdUpdate(chat, parts)
       \/ CmdList(chat, parts)
       \/ CmdRemove(chat, parts)
       \/ CmdUnknown(chat, parts)

\* ------------------------------------------------------------------------
\* monitoring_loop and check_alerts
\*
\* One step per access to shared state: the flag, the registry under the
\* lock, and each unlocked read of a snapshot dict or of alert_sent.
\* ------------------------------------------------------------------------

Goto(i, pc) == [loops EXCEPT ![i].pc = pc, ![i].last = ""]

\* The locals of one pass of the for loop are dead once the pass ends.
NextEntry(l) ==
    [l EXCEPT !.pc = "iter", !.sym = "", !.price = None,
              !.upper = 0, !.lower = 0, !.chat = "", !.last = ""]

\* monitoring_loop: self.monitoring_active = True
LoopStart(i) ==
    /\ loops[i].pc = "spawned"
    /\ monitoring_active' = TRUE
    /\ loops' = Goto(i, "poll")
    /\ UNCHANGED <<regVars, lock, cmdVars, breaches, gp, run>>

\* any(a.get("active") for a in self.alerts.values())
HasActive == \E k \in DOMAIN alerts : alerts[k].active

\* The top of the while loop: has_active under the lock, sleep(5) when false.
LoopPoll(i) ==
    /\ loops[i].pc = "poll"
    /\ lock = "free"
    /\ loops' = IF HasActive THEN Goto(i, "snapshot") ELSE Goto(i, "poll")
    /\ UNCHANGED <<regVars, monitoring_active, lock, cmdVars, breaches, gp, run>>

\* check_alerts: snapshot = list(self.alerts.items()) under the lock.
CheckSnapshot(i) ==
    /\ loops[i].pc = "snapshot"
    /\ lock = "free"
    /\ loops' = [loops EXCEPT ![i].pc = "iter", ![i].snap = SnapshotOf(alerts_keys),
                              ![i].last = ""]
    /\ UNCHANGED <<regVars, monitoring_active, lock, cmdVars, breaches, gp, run>>

\* The for loop is exhausted: check_alerts returns, sleep(60), back to the top.
CheckDone(i) ==
    /\ loops[i].pc = "iter"
    /\ loops[i].snap = <<>>
    /\ loops' = Goto(i, "poll")
    /\ UNCHANGED <<regVars, monitoring_active, lock, cmdVars, breaches, gp, run>>

\* `if not alert_data.get("active", False): continue`
CheckSkipInactive(i) ==
    /\ loops[i].pc = "iter"
    /\ loops[i].snap # <<>>
    /\ ~Deref(Head(loops[i].snap)).active
    /\ loops' = [loops EXCEPT ![i].snap = Tail(@), ![i].last = ""]
    /\ UNCHANGED <<regVars, monitoring_active, lock, cmdVars, breaches, gp, run>>

\* Fault: a pass that gets None from get_current_price deactivates the entry.
CheckUnavailableDeactivates(i) ==
    /\ loops[i].pc = "iter"
    /\ loops[i].snap # <<>>
    /\ Deref(Head(loops[i].snap)).active
    /\ lock = "free"
    /\ alerts' = IF Head(loops[i].snap).sym \in DOMAIN alerts
                 THEN [alerts EXCEPT ![Head(loops[i].snap).sym].active = FALSE]
                 ELSE alerts
    /\ loops' = [loops EXCEPT ![i].snap = Tail(@), ![i].last = "unavailable"]
    /\ UNCHANGED <<alerts_keys, alert_sent, monitoring_active, lock, cmdVars, breaches, gp, run>>

\* The entry is active and get_current_price returns None: continue.
CheckUnavailable(i) ==
    /\ loops[i].pc = "iter"
    /\ loops[i].snap # <<>>
    /\ Deref(Head(loops[i].snap)).active
    /\ None \in QuoteOutcomes
    /\ loops' = [loops EXCEPT ![i].snap = Tail(@), ![i].last = "unavailable"]
    /\ UNCHANGED <<regVars, monitoring_active, lock, cmdVars, breaches, gp, run>>

\* The entry is active and get_current_price returns a price.
CheckPrice(i) ==
    /\ loops[i].pc = "iter"
    /\ loops[i].snap # <<>>
    /\ Deref(Head(loops[i].snap)).active
    /\ \E p \in QuoteOutcomes \ {None} :
          loops' = [loops EXCEPT ![i].pc = "read_upper", ![i].price = p, ![i].last = ""]
    /\ UNCHANGED <<regVars, monitoring_active, lock, cmdVars, breaches, gp, run>>

\* upper_price = alert_data["upper_price"]
CheckReadUpper(i) ==
    /\ loops[i].pc = "read_upper"
    /\ loops' = [loops EXCEPT ![i].pc = "read_lower",
                              ![i].upper = Deref(Head(loops[i].snap)).upper_price]
    /\ UNCHANGED <<regVars, monitoring_active, lock, cmdVars, breaches, gp, run>>

\* lower_price = alert_data["lower_price"]; chat_id = alert_data["chat_id"]
\* (chat_id of a dict never changes, so the two reads are one step).
CheckReadLower(i) ==
    /\ loops[i].pc = "read_lower"
    /\ loops' = [loops EXCEPT ![i].pc = "test_upper",
                              ![i].lower = Deref(Head(loops[i].snap)).lower_price,
                              ![i].chat = Deref(Head(loops[i].snap)).chat_id,
                              ![i].sym = Head(loops[i].snap).sym,
                              ![i].snap = Tail(@)]
    /\ UNCHANGED <<regVars, monitoring_active, lock, cmdVars, breaches, gp, run>>

\* `current_price >= upper_price and not ...get("upper_sent", False)`
UpperBreach(l) == GE(l.price, l.upper) /\ ~SentFlag(l.sym, "upper_sent")

\* `current_price <= lower_price and not ...get("lower_sent", False)`
LowerBreach(l) == LE(l.price, l.lower) /\ ~SentFlag(l.sym, "lower_sent")

\* A breach notification is sent for sym.
Notify(sym) == [breaches EXCEPT ![sym] = @ + 1]

\* The `if` of the upper breach; when it is false and alert_sent was read for
\* it, the `elif` reads alert_sent in a step of its own.
CheckTestUpper(i) ==
    /\ loops[i].pc = "test_upper"
    /\ GE(loops[i].price, loops[i].upper)
    /\ LET l == loops[i] IN
       IF UpperBreach(l)
       THEN /\ breaches' = Notify(l.sym)
            /\ loops' = [loops EXCEPT ![i] = [NextEntry(l) EXCEPT !.pc = "mark_upper", !.sym = l.sym]]
       ELSE /\ UNCHANGED breaches
            /\ loops' = IF LE(l.price, l.lower)
                        THEN Goto(i, "test_lower")
                        ELSE [loops EXCEPT ![i] = NextEntry(l)]
    /\ UNCHANGED <<regVars, monitoring_active, lock, cmdVars, gp, run>>

\* The `elif` of the lower breach.
CheckTestLower(i) ==
    /\ \/ loops[i].pc = "test_lower"
       \/ loops[i].pc = "test_upper" /\ ~GE(loops[i].price, loops[i].upper)
    /\ LET l == loops[i] IN
       IF LowerBreach(l)
       THEN /\ breaches' = Notify(l.sym)
            /\ loops' = [loops EXCEPT ![i] = [NextEntry(l) EXCEPT !.pc = "mark_lower", !.sym = l.sym]]
       ELSE /\ UNCHANGED breaches
            /\ loops' = [loops EXCEPT ![i] = NextEntry(l)]
    /\ UNCHANGED <<regVars, monitoring_active, lock, cmdVars, gp, run>>

\* Fault: the flag is set with setdefault, without the `in` test.
MarkSentCreates(sym, flag) ==
    [x \in (DOMAIN alert_sent) \cup {sym} |->
        IF x = sym
        THEN [upper_sent |-> IF flag = "upper_sent" THEN TRUE
                             ELSE IF sym \in DOMAIN alert_sent
                                  THEN alert_sent[sym].upper_sent ELSE FALSE,
              lower_sent |-> IF flag = "lower_sent" THEN TRUE
                             ELSE IF sym \in DOMAIN alert_sent
                                  THEN alert_sent[sym].lower_sent ELSE FALSE]
        ELSE alert_sent[x]]

\* Fault: the marking without `self.alert_sent[sym][flag] = True`.
MarkSentNot(sym, flag) == alert_sent

\* `if sym in self.alert_sent: self.alert_sent[sym][flag] = True`
MarkSent(sym, flag) ==
    IF sym \in DOMAIN alert_sent
    THEN [alert_sent EXCEPT ![sym][flag] = TRUE]
    ELSE alert_sent

\* Fault: the marking without `self.alerts[sym]["active"] = False`.
DeactivateNot(sym) == alerts

\* `if sym in self.alerts: self.alerts[sym]["active"] = False`
Deactivate(sym) ==
    IF sym \in DOMAIN alerts
    THEN [alerts EXCEPT ![sym].active = FALSE]
    ELSE alerts

\* The pass ends after the block under the lock; last tells when the block
\* found the symbol gone.
Marked(l) ==
    [NextEntry(l) EXCEPT !.last = IF l.sym \in DOMAIN alerts THEN "" ELSE "mark_absent"]

\* The block under the lock after the upper-breach message.
CheckMarkUpper(i) ==
    /\ loops[i].pc = "mark_upper"
    /\ lock = "free"
    /\ alert_sent' = MarkSent(loops[i].sym, "upper_sent")
    /\ alerts' = Deactivate(loops[i].sym)
    /\ loops' = [loops EXCEPT ![i] = Marked(loops[i])]
    /\ UNCHANGED <<alerts_keys, monitoring_active, lock, cmdVars, breaches, gp, run>>

\* The block under the lock after the lower-breach message.
CheckMarkLower(i) ==
    /\ loops[i].pc = "mark_lower"
    /\ lock = "free"
    /\ alert_sent' = MarkSent(loops[i].sym, "lower_sent")
    /\ alerts' = Deactivate(loops[i].sym)
    /\ loops' = [loops EXCEPT ![i] = Marked(loops[i])]
    /\ UNCHANGED <<alerts_keys, monitoring_active, lock, cmdVars, breaches, gp, run>>

MonitoringLoop(i) ==
    \/ LoopStart(i)
    \/ LoopPoll(i)
    \/ CheckSnapshot(i)
    \/ CheckDone(i)
    \/ CheckSkipInactive(i)
    \/ CheckUnavailable(i)
    \/ CheckPrice(i)
    \/ CheckReadUpper(i)
    \/ CheckReadLower(i)
    \/ CheckTestUpper(i)
    \/ CheckTestLower(i)
    \/ CheckMarkUpper(i)
    \/ CheckMarkLower(i)

\* ------------------------------------------------------------------------
\* get_current_price: one call, response by response
\* ------------------------------------------------------------------------

\* get_current_price(ticker) is entered: the first interval, attempt 0.
GpCall(ticker) ==
    /\ gp.pc = "idle"
    /\ gp' = [GpIdle EXCEPT !.pc = "request", !.ticker = ticker]
    /\ UNCHANGED <<regVars, monitoring_active, lock, cmdVars, loops, breaches, run>>

\* Fault: `except Exception` gives up (return None) instead of retrying.
AfterFailureGivesUp(g, why) ==
    LET f == [g EXCEPT !.failed = @ + 1, !.slept = @ + 1 + g.attempt, !.why = why]
    IN IF why = "error"
       THEN [f EXCEPT !.pc = "returned", !.result = None]
       ELSE IF g.attempt + 1 < Attempts
            THEN [f EXCEPT !.attempt = @ + 1]
            ELSE IF g.interval < Len(Intervals)
                 THEN [f EXCEPT !.interval = @ + 1, !.attempt = 0]
                 ELSE [f EXCEPT !.pc = "returned", !.result = None]

\* The state after a failed attempt: time.sleep(1 + attempt), then the next
\* attempt, the next interval, or `return None` after the last interval.
AfterFailure(g, why) ==
    LET f == [g EXCEPT !.failed = @ + 1, !.slept = @ + 1 + g.attempt, !.why = why]
    IN IF g.attempt + 1 < Attempts
       THEN [f EXCEPT !.attempt = @ + 1]
       ELSE IF g.interval < Len(Intervals)
            THEN [f EXCEPT !.interval = @ + 1, !.attempt = 0]
            ELSE [f EXCEPT !.pc = "returned", !.result = None]

\* One pass of the inner loop: requests.get answers r.
GpAttempt(r) ==
    /\ gp.pc = "request"
    /\ LET g == [gp EXCEPT !.requests = @ + 1,
                            !.asked = Append(@, Intervals[gp.interval])]
       IN gp' = IF Attempt(r).ok
                THEN [g EXCEPT !.pc = "returned", !.result = Attempt(r).price,
                               !.why = "", !.closes = r.close]
                ELSE AfterFailure(g, Attempt(r).why)
    /\ UNCHANGED <<regVars, monitoring_active, lock, cmdVars, loops, breaches, run>>

\* The caller has the result; the model is ready for another call.
GpReturn ==
    /\ gp.pc = "returned"
    /\ gp' = GpIdle
    /\ UNCHANGED <<regVars, monitoring_active, lock, cmdVars, loops, breaches, run>>

NextPrice ==
    \/ \E ticker \in {Ticker(sym) : sym \in Symbols} : GpCall(ticker)
    \/ \E r \in Responses : GpAttempt(r)
    \/ GpReturn

SpecPrice == Init /\ [][NextPrice]_vars

\* The steps of the program for users sending commands.  With prompt, a
\* monitoring thread that was started runs its first statement before the
\* consuming thread tests monitoring_active again; without it the two race.
Step(commands, prompt) ==
    \/ \E c \in commands : HandleCommand(c[1], c[2]) /\ UNCHANGED run
    \/ CmdAddMonitorAndReply(prompt)
    \/ CmdUpdateNotFoundReply
    \/ \E i \in LoopIds : MonitoringLoop(i)

Next == Step(Commands, TRUE)

Spec == Init /\ [][Next]_vars

NextRace == Step(RaceCommands, FALSE)

SpecRace == Init /\ [][NextRace]_vars

\* ------------------------------------------------------------------------
\* run: the consuming loop
\* ------------------------------------------------------------------------

\* The update ids the Telegram server hands out.
MaxUpdateId == 2

\* The texts users send, as handle_command splits them.
RunTexts == {<<"/add", "INFY", "1", "2">>, <<"/update", "INFY", "2", "3">>,
             <<"/update", "tcs", "2", "3">>, <<"/list">>}

\* The shapes of an element of the "result" list that run() tells apart:
\* a text message, an update without "message" (or a message without
\* "text"), a text message without "chat", a message whose "text" is not a
\* string, and an element without "update_id" (update_id = None).
Update(id, kind, parts) == [update_id |-> id, kind |-> kind, chat |-> "c1", parts |-> parts]

\* The updates the server may return for `offset`.
UpdatesFrom(offset) ==
    {Update(None, "no_message", <<>>)}
    \cup UNION {{Update(id, "text", t) : t \in RunTexts}
                \cup {Update(id, k, <<>>) : k \in {"no_message", "no_chat", "bad_text"}}
                : id \in offset..MaxUpdateId}

\* get_updates: the "result" of a 200 response, in the order of the ids; []
\* when the request fails, the status is not 200 or the body has no
\* "result" (`except Exception` in get_updates); a "result" that is null is
\* returned as it is, and is not iterable.
GetUpdates(offset) ==
    LET U == UpdatesFrom(offset)
    IN {[iterable |-> TRUE, list |-> <<>>], [iterable |-> FALSE, list |-> <<>>]}
       \cup {[iterable |-> TRUE, list |-> <<u>>] : u \in U}
       \cup {[iterable |-> TRUE, list |-> <<p[1], p[2]>>] :
               p \in {q \in U \X U : \/ None \in {q[1].update_id, q[2].update_id}
                                     \/ q[1].update_id < q[2].update_id}}

\* Fault: an exception ends the loop.
OnExceptionBreaks(r, e) == [r EXCEPT !.pc = "stopped", !.updates = <<>>, !.raised = e]

\* `except Exception as e:` the rest of the batch is dropped, the handler
\* prints and sleeps.
OnException(r, e) == [r EXCEPT !.pc = "except", !.updates = <<>>, !.raised = e]

\* `self.last_update_id = update["update_id"]` and on to the rest of the batch.
Seen(r) == [r EXCEPT !.last_update_id = Head(r.updates).update_id, !.updates = Tail(@)]

\* `updates = self.get_updates()`; `for update in updates` raises TypeError
\* when get_updates returned None.
RunGetUpdates ==
    /\ run.pc = "get"
    /\ \E r \in GetUpdates(run.last_update_id + 1) :
          run' = IF r.iterable
                 THEN [run EXCEPT !.pc = "for", !.updates = r.list]
                 ELSE OnException(run, "TypeError")
    /\ UNCHANGED <<regVars, monitoring_active, lock, cmdVars, loops, breaches, gp>>

\* An update that is not a text message: only last_update_id changes.
RunUpdateSkipped ==
    /\ run.pc = "for" /\ cpc = "idle"
    /\ run.updates # <<>>
    /\ Head(run.updates).update_id # None
    /\ Head(run.updates).kind = "no_message"
    /\ run' = Seen(run)
    /\ UNCHANGED <<regVars, monitoring_active, lock, cmdVars, loops, breaches, gp>>

\* An update that raises: KeyError of update["update_id"], KeyError of
\* update["message"]["chat"], AttributeError of message_text.strip().
RunUpdateRaises ==
    /\ run.pc = "for" /\ cpc = "idle"
    /\ run.updates # <<>>
    /\ LET u == Head(run.updates)
       IN \/ /\ u.update_id = None
             /\ run' = OnException(run, "KeyError")
          \/ /\ u.update_id # None
             /\ u.kind = "no_chat"
             /\ run' = OnException(Seen(run), "KeyError")
          \/ /\ u.update_id # None
             /\ u.kind = "bad_text"
             /\ run' = OnException(Seen(run), "AttributeError")
    /\ UNCHANGED <<regVars, monitoring_active, lock, cmdVars, loops, breaches, gp>>

\* A text message: `self.handle_command(chat_id, message_text)`.
RunUpdateHandled ==
    /\ run.pc = "for"
    /\ run.updates # <<>>
    /\ Head(run.updates).update_id # None
    /\ Head(run.updates).kind = "text"
    /\ run' = Seen(run)
    /\ HandleCommand(Head(run.updates).chat, Head(run.updates).parts)

\* The batch is done: `time.sleep(1)`.
RunForDone ==
    /\ run.pc = "for" /\ cpc = "idle"
    /\ run.updates = <<>>
    /\ run' = [run EXCEPT !.pc = "sleep"]
    /\ UNCHANGED <<regVars, monitoring_active, lock, cmdVars, loops, breaches, gp>>

\* The sleep is over: the next iteration of `while True`.
RunSleep ==
    /\ run.pc = "sleep"
    /\ run' = [run EXCEPT !.pc = "get"]
    /\ UNCHANGED <<regVars, monitoring_active, lock, cmdVars, loops, breaches, gp>>

\* `print(f"Error: {e}")`, `time.sleep(5)`, and the next iteration.
RunExcept ==
    /\ run.pc = "except"
    /\ run' = [run EXCEPT !.pc = "get"]
    /\ UNCHANGED <<regVars, monitoring_active, lock, cmdVars, loops, breaches, gp>>

\* Ctrl-C.  In the `try` it is caught by `except KeyboardInterrupt` and the
\* loop breaks; in the sleep of `except Exception` it leaves run() uncaught.
RunKeyboardInterrupt ==
    /\ run.pc \in {"get", "for", "sleep", "except"} /\ cpc = "idle"
    /\ run' = [run EXCEPT !.pc = "stopped", !.updates = <<>>, !.exit = "KeyboardInterrupt"]
    /\ UNCHANGED <<regVars, monitoring_active, lock, cmdVars, loops, breaches, gp>>

NextRun ==
    \/ RunGetUpdates
    \/ RunUpdateSkipped
    \/ RunUpdateRaises
    \/ RunUpdateHandled
    \/ RunForDone
    \/ RunSleep
    \/ RunExcept
    \/ RunKeyboardInterrupt
    \/ CmdAddMonitorAndReply(TRUE)
    \/ CmdUpdateNotFoundReply

SpecRun == Init /\ [][NextRun]_vars

\* ------------------------------------------------------------------------
\* Properties
\* ------------------------------------------------------------------------

\* A step in which the consuming thread enters handle_command for c: it was
\* idle, c is the command on record after the step, and no monitoring thread
\* moves (each step of one changes its position or shortens its snapshot).
Handles(c) ==
    /\ cpc = "idle"
    /\ cmd' = c
    /\ \A i \in LoopIds :
          /\ loops'[i].pc = loops[i].pc
          /\ Len(loops'[i].snap) = Len(loops[i].snap)

\* Arguments of /add or /update that the contract rejects: wrong arity, a
\* price that is not a number, lower >= upper.
BadArgs(parts) ==
    \/ Len(parts) # 4
    \/ ~ParseFloat(parts[3]).ok
    \/ ~ParseFloat(parts[4]).ok
    \/ GE(ParseFloat(parts[3]).val, ParseFloat(parts[4]).val)

\* The symbol a command names.
StockOf(c) == Upper(c[2][2])

\* The symbol of c is absent from the registry or stored for another chat.
NotOwned(c) == StockOf(c) \notin DOMAIN alerts \/ alerts[StockOf(c)].chat_id # c[1]

\* The step leaves the entry of s and its notified flags as they were.
Kept(s) ==
    /\ s \in DOMAIN alerts' /\ alerts'[s] = alerts[s]
    /\ s \in DOMAIN alert_sent' /\ alert_sent'[s] = alert_sent[s]

\* C1: every call of handle_command makes exactly one send_message call before
\* it returns: none while it is under way, one when it has returned, never two.
C1_OneReplyPerCommand ==
    /\ sends <= 1
    /\ cpc # "idle" => sends = 0
    /\ (cmd # NoCmd /\ cpc = "idle") => sends = 1

\* An /update of a symbol the chat does not own has returned with its one reply.
C1_Witness ==
    /\ cmd # NoCmd /\ cpc = "idle" /\ sends = 1
    /\ reply = Msg("/update", "not_found", "INFY", {})

\* C2: for every symbol, at most one breach notification is sent between two
\* activations (an add or a successful update) of its entry.
C2_OneBreachPerActivation == \A s \in Symbols : breaches[s] <= 1

\* C3: an /add with wrong arity, a price that is not a number, or lower >= upper
\* returns at once and leaves alerts, alert_sent and the monitoring threads as
\* they were.
C3_RejectedAddChangesNothing ==
    [][\A c \in {cmd'} :
          (Handles(c) /\ Verb(c[2]) = "/add" /\ BadArgs(c[2]))
          => /\ UNCHANGED <<alerts, alerts_keys, alert_sent, monitoring_active, loops>>
             /\ cpc' = "idle"]_vars

\* An /add with lower >= upper has been answered and the entry of c1 that was
\* there is still there.
C3_Witness ==
    /\ reply = Msg("/add", "lower_must_be_less", "", {})
    /\ effect = "none"
    /\ "INFY" \in DOMAIN alerts
    /\ alerts["INFY"].chat_id = "c1"
    /\ alerts["INFY"].lower_price = 100 /\ alerts["INFY"].upper_price = 300

\* C4: an /update or /remove of a symbol that is absent or stored for another
\* chat leaves the registry as it was and is answered not-found, naming only
\* the symbol; an entry leaves the registry only by a /remove of its owner.
C4_NotFoundChangesNothing ==
    [][/\ \A c \in {cmd'} :
            (Handles(c) /\ Verb(c[2]) = "/update" /\ ~BadArgs(c[2]) /\ NotOwned(c))
            => /\ UNCHANGED regVars
               /\ cpc' = "update_not_found"
               /\ clocal'.stock = StockOf(c)
       /\ (cpc = "update_not_found" /\ cpc' # cpc)
            => /\ UNCHANGED regVars
               /\ reply' = Msg("/update", "not_found", clocal.stock, {})
       /\ \A c \in {cmd'} :
            (Handles(c) /\ Verb(c[2]) = "/remove" /\ Len(c[2]) = 2 /\ NotOwned(c))
            => /\ UNCHANGED regVars
               /\ reply' = Msg("/remove", "not_found", StockOf(c), {})
       /\ \A s \in DOMAIN alerts \ DOMAIN alerts' :
            \E c \in {cmd'} :
                /\ Handles(c)
                /\ Verb(c[2]) = "/remove" /\ Len(c[2]) = 2 /\ StockOf(c) = s
                /\ alerts[s].chat_id = c[1]]_vars

\* A /remove of TCS was answered not-found while TCS is stored for c1: the
\* registry last changed before it, so it came from the other chat.
C4_Witness ==
    /\ reply = Msg("/remove", "not_found", "TCS", {})
    /\ "TCS" \in DOMAIN alerts
    /\ alerts["TCS"].chat_id = "c1"

\* C5: a valid /add from chat c stores, whoever owned the symbol, an entry of c
\* with the given thresholds, active, both notified flags false, and changes
\* no other entry; the rest of the command, whatever get_current_price
\* returns, leaves the registry as it is.
C5_ValidAddReplaces ==
    [][/\ \A c \in {cmd'} :
            (Handles(c) /\ Verb(c[2]) = "/add" /\ ~BadArgs(c[2]))
            => /\ DOMAIN alerts' = DOMAIN alerts \cup {StockOf(c)}
               /\ DOMAIN alert_sent' = DOMAIN alerts'
               /\ alerts'[StockOf(c)] =
                      [ticker |-> StockOf(c) \o ".NS",
                       upper_price |-> ParseFloat(c[2][4]).val,
                       lower_price |-> ParseFloat(c[2][3]).val,
                       chat_id |-> c[1],
                       active |-> TRUE]
               /\ alert_sent'[StockOf(c)] = [upper_sent |-> FALSE, lower_sent |-> FALSE]
               /\ \A k \in DOMAIN alerts \ {StockOf(c)} : Kept(k)
               /\ cpc' = "add_monitor"
       /\ (cpc = "add_monitor" /\ cpc' # cpc)
            => /\ UNCHANGED regVars
               /\ reply'.verb = "/add"
               /\ reply'.kind \in {"added", "added_feed_unavailable"}]_vars

\* An /add of c2 replaced an entry of c1 and was answered without a price.
C5_Witness ==
    /\ effect = "replaced_other"
    /\ reply = Msg("/add", "added_feed_unavailable", "INFY", {})
    /\ alerts["INFY"] = [ticker |-> "INFY.NS", upper_price |-> 300, lower_price |-> 100,
                         chat_id |-> "c2", active |-> TRUE]
    /\ alert_sent["INFY"] = [upper_sent |-> FALSE, lower_sent |-> FALSE]

\* C6: a valid /update from the owner sets in one step the thresholds, active
\* and both notified flags of the entry, and leaves its owner, its ticker and
\* every other entry as they were.
C6_UpdateRearms ==
    [][\A c \in {cmd'} :
          (Handles(c) /\ Verb(c[2]) = "/update" /\ ~BadArgs(c[2]) /\ ~NotOwned(c))
          => /\ alerts' = [alerts EXCEPT ![StockOf(c)] =
                              [ticker |-> alerts[StockOf(c)].ticker,
                               chat_id |-> alerts[StockOf(c)].chat_id,
                               upper_price |-> ParseFloat(c[2][4]).val,
                               lower_price |-> ParseFloat(c[2][3]).val,
                               active |-> TRUE]]
             /\ alert_sent' = [alert_sent EXCEPT ![StockOf(c)] =
                                  [upper_sent |-> FALSE, lower_sent |-> FALSE]]
             /\ alerts_keys' = alerts_keys
             /\ cpc' = "idle"
             /\ reply'.verb = "/update"
             /\ reply'.kind \in {"updated", "updated_price_na"}]_vars

\* An /update found the entry deactivated by a breach and re-armed it.
C6_Witness ==
    /\ effect = "rearmed"
    /\ reply = Msg("/update", "updated", "INFY", {})
    /\ alerts["INFY"].active
    /\ alert_sent["INFY"] = [upper_sent |-> FALSE, lower_sent |-> FALSE]

\* C7: a pass of check_alerts that gets None for an active entry goes on to
\* the next entry, sends no breach notification and leaves the registry as it
\* was; an active entry changes only by a command or by the marking that
\* follows a breach notification.
C7_UnavailableChangesNothing ==
    [][/\ \A i \in LoopIds :
            (/\ loops[i].pc = "iter" /\ loops[i].snap # <<>>
             /\ Deref(Head(loops[i].snap)).active
             /\ loops'[i].pc = "iter"
             /\ Len(loops'[i].snap) < Len(loops[i].snap))
            => /\ loops'[i].last = "unavailable"
               /\ loops'[i].snap = Tail(loops[i].snap)
               /\ UNCHANGED <<regVars, breaches>>
       /\ \A s \in DOMAIN alerts :
            (alerts[s].active /\ (s \notin DOMAIN alerts' \/ alerts'[s] # alerts[s]))
            => \/ \E i \in LoopIds :
                    /\ loops[i].pc \in {"mark_upper", "mark_lower"}
                    /\ loops[i].sym = s
                    /\ loops'[i].pc = "iter"
               \/ Handles(cmd')]_vars

\* A pass got None for INFY, the only entry: it is past it and INFY is as it
\* was, active and not notified.
C7_Witness ==
    /\ loops[1].last = "unavailable"
    /\ loops[1].snap = <<>>
    /\ alerts_keys = <<"INFY">>
    /\ alerts["INFY"].active
    /\ alert_sent["INFY"] = [upper_sent |-> FALSE, lower_sent |-> FALSE]
    /\ breaches["INFY"] = 0

\* C8: get_current_price never raises; every response that yields no price,
\* of whatever kind, is one failed attempt; it returns None only after 3
\* intervals x 3 attempts = 9 failed attempts.
C8_NoneAfterNineFailures ==
    /\ gp.pc \in {"idle", "request", "returned"}
    /\ gp.failed = IF gp.pc = "returned" /\ gp.result # None
                   THEN gp.requests - 1 ELSE gp.requests
    /\ (gp.pc = "returned" /\ gp.result = None) => gp.failed = 9
    /\ (gp.pc = "request") => gp.failed < 9

\* A call returned None; its ninth failure was a close series of nulls only.
C8_Witness ==
    /\ gp.pc = "returned"
    /\ gp.result = None
    /\ gp.failed = 9
    /\ gp.why = ""

\* C9: the reply to /list from chat c names exactly the symbols stored for c,
\* is the no-alerts reply when there is none, and /list leaves the registry
\* as it was.
C9_ListShowsOwnEntries ==
    [][\A c \in {cmd'} :
          (Handles(c) /\ Verb(c[2]) = "/list")
          => /\ UNCHANGED regVars
             /\ reply'.verb = "/list"
             /\ reply'.names = {k \in DOMAIN alerts : alerts[k].chat_id = c[1]}
             /\ reply'.kind = IF \E k \in DOMAIN alerts : alerts[k].chat_id = c[1]
                              THEN "list" ELSE "no_alerts"
             /\ cpc' = "idle"]_vars

\* c1 listed its alerts while INFY was stored for c2: the reply names TCS only.
C9_Witness ==
    /\ reply = Msg("/list", "list", "", {"TCS"})
    /\ DOMAIN alerts = {"INFY", "TCS"}
    /\ alerts["INFY"].chat_id = "c2"

\* C10 as stated: no command of chat c, /add included, changes or deletes an
\* entry stored for another chat.
C10_NoCommandTouchesOthers ==
    [][\A c \in {cmd'} :
          Handles(c)
          => \A s \in DOMAIN alerts : alerts[s].chat_id # c[1] => Kept(s)]_vars

\* What holds of C10: no command of chat c other than a valid /add changes or
\* deletes an entry stored for another chat, and the later steps of a command
\* change no entry at all.
C10_OnlyAddTouchesOthers ==
    [][/\ \A c \in {cmd'} :
            (Handles(c) /\ ~(Verb(c[2]) = "/add" /\ ~BadArgs(c[2])))
            => \A s \in DOMAIN alerts : alerts[s].chat_id # c[1] => Kept(s)
       /\ (cpc # "idle" /\ cpc' = "idle") => UNCHANGED regVars]_vars

NextOwner == Step(OwnerCommands, TRUE)

SpecOwner == Init /\ [][NextOwner]_vars

\* The steps of monitoring thread i that wait for nothing.
LoopRuns(i) ==
    \/ LoopStart(i)
    \/ CheckDone(i)
    \/ CheckSkipInactive(i)
    \/ CheckReadUpper(i)
    \/ CheckReadLower(i)
    \/ CheckTestUpper(i)
    \/ CheckTestLower(i)

\* The steps of monitoring thread i that start with `with self.lock`.
LoopLocks(i) ==
    \/ LoopPoll(i)
    \/ CheckSnapshot(i)
    \/ CheckMarkUpper(i)
    \/ CheckMarkLower(i)

\* get_current_price returns a price for sym to a pass of thread i.
CheckPriceOf(i, sym) == CheckPrice(i) /\ Head(loops[i].snap).sym = sym

\* Scheduling: a thread that can run does run; a thread waiting for the lock
\* gets it, since the handler releases it after each command and then waits
\* for the network; the handler finishes the command it is in; and a feed
\* asked again and again for the price of a symbol returns one.
Fairness ==
    /\ WF_vars(CmdAddMonitorAndReply(TRUE))
    /\ WF_vars(CmdUpdateNotFoundReply)
    /\ \A i \in LoopIds :
          /\ WF_vars(LoopRuns(i))
          /\ SF_vars(LoopLocks(i))
          /\ \A sym \in Symbols : SF_vars(CheckPriceOf(i, sym))

SpecLive == Init /\ [][NextOwner]_vars /\ Fairness

\* a < b on floats.
LT(a, b) == a # NaN /\ b # NaN /\ a < b

\* C11: in every reachable state every key of the registry maps to a
\* well-formed entry: its ticker is the key with the exchange suffix, its
\* owner is a chat, both thresholds are set, and lower_price < upper_price.
C11_EntriesWellFormed ==
    \A s \in DOMAIN alerts :
        /\ alerts[s].ticker = s \o ".NS"
        /\ alerts[s].chat_id \in Chats
        /\ alerts[s].lower_price # None /\ alerts[s].upper_price # None
        /\ LT(alerts[s].lower_price, alerts[s].upper_price)

\* C12: at every moment at most one monitoring thread exists.
C12_OneMonitoringLoop ==
    Cardinality({i \in LoopIds : loops[i].pc # "none"}) <= 1

\* A step in which handle_command makes its send_message call: the step in
\* which it returns.
SendsReply == cpc' = "idle" /\ (cpc # "idle" \/ Handles(cmd'))

\* C13: no thread holds the registry lock while it makes a network call.  A
\* monitoring thread holds the lock only within a step that makes none, so
\* between steps the lock is free or the command handler's; the handler's
\* send_message call starts with the lock free.
C13_NoNetworkCallUnderLock ==
    [][/\ lock \in {"free", "cmd"}
       /\ SendsReply => lock = "free"]_vars

\* C14: whenever a monitoring thread changes an entry from active to
\* inactive, a breach notification for that symbol has been sent since the
\* entry's most recent add or successful update.
C14_DeactivatedOnlyAfterNotification ==
    [][\A s \in DOMAIN alerts :
          (/\ alerts[s].active
           /\ s \in DOMAIN alerts' /\ ~alerts'[s].active)
          => breaches[s] >= 1]_vars

\* C15: a pass of check_alerts never uses a half-updated entry: the
\* (lower, upper) pair it evaluates is a pair the registry held for the entry
\* at one moment, that is, the pair of one /add or /update command.
C15_PassUsesOneEntry ==
    \A i \in LoopIds :
        loops[i].pc \in {"test_upper", "test_lower"}
        => \E c \in OwnerCommands :
              /\ Len(c[2]) = 4
              /\ loops[i].lower = ParseFloat(c[2][3]).val
              /\ loops[i].upper = ParseFloat(c[2][4]).val

\* C16: when the symbol was removed after the snapshot and is absent at the
\* breach marking, the marking changes nothing: the symbol stays absent from
\* alerts and from alert_sent and every other entry is as it was.
C16_MarkAfterRemoveIsNoOp ==
    [][\A i \in LoopIds :
          (/\ loops[i].pc \in {"mark_upper", "mark_lower"}
           /\ loops'[i].pc = "iter"
           /\ loops[i].sym \notin DOMAIN alerts)
          => /\ UNCHANGED <<alerts, alerts_keys, alert_sent>>
             /\ loops[i].sym \notin DOMAIN alert_sent']_vars

\* A marking found INFY removed; INFY is absent from both maps and the entry
\* of TCS is there, active and not notified.
C16_Witness ==
    /\ loops[1].last = "mark_absent"
    /\ "INFY" \notin DOMAIN alerts /\ "INFY" \notin DOMAIN alert_sent
    /\ "TCS" \in DOMAIN alerts
    /\ alerts["TCS"].active
    /\ alert_sent["TCS"] = [upper_sent |-> FALSE, lower_sent |-> FALSE]

\* The order of the requests of one call: three at 1m, three at 5m, three at 15m.
RequestOrder == <<"1m", "1m", "1m", "5m", "5m", "5m", "15m", "15m", "15m">>

\* The call asked in RequestOrder, every request before the last failed, and
\* no request follows the one that gave a price.
AsksInOrder ==
    /\ Len(gp.asked) <= Len(RequestOrder)
    /\ gp.asked = SubSeq(RequestOrder, 1, Len(gp.asked))
    /\ gp.pc = "request" => gp.failed = Len(gp.asked)
    /\ (gp.pc = "returned" /\ gp.result # None) => gp.failed = Len(gp.asked) - 1

\* C17 as stated: get_current_price asks 1m, 5m, 15m in this order, three
\* attempts each, stops at the first response whose close series has a
\* non-null value, and returns the last non-null element of that series.
C17_ReturnsLastNonNull ==
    /\ AsksInOrder
    /\ (gp.pc = "returned" /\ gp.result # None)
       => \E k \in 1..Len(gp.closes) :
             /\ gp.closes[k] # None
             /\ \A j \in (k + 1)..Len(gp.closes) : gp.closes[j] = None
             /\ gp.result * 10 = gp.closes[k]

\* C17, amended: the same, and the value returned is the last non-null
\* element of the series rounded to two decimals.
C17_ReturnsLastNonNullRounded ==
    /\ AsksInOrder
    /\ (gp.pc = "returned" /\ gp.result # None)
       => \E k \in 1..Len(gp.closes) :
             /\ gp.closes[k] # None
             /\ \A j \in (k + 1)..Len(gp.closes) : gp.closes[j] = None
             /\ gp.result = Round2(gp.closes[k])

\* After three failures at 1m the first request at 5m gave the series
\* (3.004, 1.996): the call returned 2.00 at once.
C17_Witness ==
    /\ gp.pc = "returned"
    /\ gp.asked = <<"1m", "1m", "1m", "5m">>
    /\ gp.closes = <<3004, 1996>>
    /\ gp.result = 200

C19_RunStopsOnlyOnInterrupt ==
    /\ [](run.pc = "stopped" => run.exit = "KeyboardInterrupt")
    /\ [][run.pc # "stopped" /\ run'.pc = "stopped"
            => run.exit = "" /\ run'.raised = run.raised]_vars
    /\ [][run.pc = "except" /\ run'.pc # "except"
            => run'.pc = "get" \/ run'.exit = "KeyboardInterrupt"]_vars

\* A command was handled, the next update raised AttributeError, and run()
\* is about to call get_updates again.
C19_Witness ==
    /\ run.pc = "get"
    /\ run.raised = "AttributeError"
    /\ run.last_update_id = 2
    /\ "INFY" \in DOMAIN alerts
    /\ cmd = <<"c1", <<"/add", "INFY", "1", "2">>>>

\* C20: whenever the registry lock is free, alerts and alert_sent have the
\* same keys, and an entry is active exactly when both of its notified flags
\* are false.
C20_MapsAgree ==
    lock = "free"
    => /\ DOMAIN alerts = DOMAIN alert_sent
       /\ \A s \in DOMAIN alerts :
             alerts[s].active
             <=> (~alert_sent[s].upper_sent /\ ~alert_sent[s].lower_sent)

\* With the lock free, INFY is inactive after the marking of its lower
\* breach and TCS is active with both flags false.
C20_Witness ==
    /\ lock = "free"
    /\ DOMAIN alerts = {"INFY", "TCS"}
    /\ ~alerts["INFY"].active
    /\ alert_sent["INFY"] = [upper_sent |-> FALSE, lower_sent |-> TRUE]
    /\ alerts["TCS"].active
    /\ alert_sent["TCS"] = FreshSent

====
